---- MODULE Spec2Model ----
(***************************************************************************)
(* Model of the BQ25723 register-access driver (src/Sketch/BQ25723.hpp).   *)
(*                                                                         *)
(* The driver owns _address and _initialized and talks to a TwoWire        *)
(* transport.  Every public method is one action; the answers of the       *)
(* transport (the result of write, endTransmission and requestFrom) are    *)
(* inputs of the action.  The device behind the transport is a register    *)
(* file with a register pointer: it stores a word that was written in a    *)
(* complete, acknowledged transaction and delivers the bytes of the        *)
(* register its pointer selects.                                           *)
(*                                                                         *)
(* calls is the sequence of transport calls the last method made; last is  *)
(* what the last method was called with and what it returned.              *)
(***************************************************************************)
EXTENDS Integers, Sequences, FiniteSets

VARIABLES address, initialized, mem, ptr, written, calls, last

vars == <<address, initialized, mem, ptr, written, calls, last>>

-----------------------------------------------------------------------------
(* Bounds of the model *)

\* largest count the bulk read is called with under Spec
MaxCount == 1

\* largest count the bulk read is called with under SpecBulk
MaxBulk == 3

-----------------------------------------------------------------------------
(* Program constants *)

BQ25723_I2C_ADDR_DEFAULT == 107
BQ25723_I2C_ADDR_ALT == 106
BQ25723_REG_CHARGE_OPTION_0 == 0
BQ25723_REG_CHARGE_CURRENT == 2
BQ25723_REG_CHARGE_VOLTAGE == 4
BQ25723_REG_OTG_VOLTAGE == 6
BQ25723_REG_OTG_CURRENT == 8
BQ25723_REG_INPUT_VOLTAGE == 10
BQ25723_REG_VSYS_MIN == 12
BQ25723_REG_IIN_HOST == 14
BQ25723_REG_CHARGER_STATUS == 32
BQ25723_REG_PROCHOT_STATUS == 34
BQ25723_REG_IIN_DPM == 36
BQ25723_REG_ADCVBUS_PSYS == 38
BQ25723_REG_ADCIBAT == 40
BQ25723_REG_ADCIINCMPIN == 42
BQ25723_REG_ADCVSYSVBAT == 44
BQ25723_REG_MANUFACTURER_ID == 46
BQ25723_REG_DEVICE_ID == 47
BQ25723_REG_CHARGE_OPTION_1 == 48
BQ25723_REG_CHARGE_OPTION_2 == 50
BQ25723_REG_CHARGE_OPTION_3 == 52
BQ25723_REG_PROCHOT_OPTION_0 == 54
BQ25723_REG_PROCHOT_OPTION_1 == 56
BQ25723_REG_ADC_OPTION == 58
BQ25723_REG_CHARGE_OPTION_4 == 60
BQ25723_REG_VMIN_ACT_PROT == 62
I2C_SPEED == 100000
SDA_PIN == 21
SCL_PIN == 22
ERROR_VALUE == 65535
DEVICE_ID_VALUE == 35
UINT8_MAX == 255

-----------------------------------------------------------------------------
(* Fixed-width arithmetic: uint8_t, uint16_t and the bit operators of C     *)

U8(x) == x % 256

U16(x) == x % 65536

RECURSIVE BitAnd(_, _)
BitAnd(x, y) ==
    IF x = 0 \/ y = 0 THEN 0
    ELSE (IF x % 2 = 1 /\ y % 2 = 1 THEN 1 ELSE 0) + 2 * BitAnd(x \div 2, y \div 2)

RECURSIVE BitOr(_, _)
BitOr(x, y) ==
    IF x = 0 THEN y
    ELSE IF y = 0 THEN x
    ELSE (IF x % 2 = 1 \/ y % 2 = 1 THEN 1 ELSE 0) + 2 * BitOr(x \div 2, y \div 2)

Shl(x, n) == x * (2 ^ n)

Shr(x, n) == x \div (2 ^ n)

-----------------------------------------------------------------------------
(* Inputs *)

\* the bus addresses a driver is bound to
DevAddrs == {BQ25723_I2C_ADDR_DEFAULT, BQ25723_I2C_ADDR_ALT}

\* the registers single reads and writes are issued for
RegAddrs == {BQ25723_REG_CHARGE_CURRENT, BQ25723_REG_DEVICE_ID}

\* the registers a bulk read starts at (the second one wraps past 0xFF)
StartAddrs == {BQ25723_REG_MANUFACTURER_ID, 255}

\* the 16-bit values written: 0x1770 and 0xFFFF
Values == {6000, ERROR_VALUE}

\* the pin arguments of begin: defaults, both given, one given
PinPairs == {<<-1, -1>>, <<SDA_PIN, SCL_PIN>>, <<SDA_PIN, -1>>}

\* results of endTransmission: 0 success, 2 NACK on address
EndResults == {0, 2}

\* results of write: the number of bytes the transport queued
WriteResults == {0, 1}

\* the byte counts requestFrom reports for a request of 2
RequestResults == {0, 1, 2}

\* the answers of the transport to one register read
ReadAnswers ==
    [w : WriteResults, et : {0}, n : RequestResults]
        \cup [w : {1}, et : EndResults \ {0}, n : {0}]

\* the answers of the transport to one read of a bulk read: all is well, the
\* address phase is not acknowledged, one byte short
BulkAnswers ==
    {[w |-> 1, et |-> 0, n |-> 2], [w |-> 1, et |-> 2, n |-> 0],
     [w |-> 1, et |-> 0, n |-> 1]}

\* the results of the three writes of a register write: every byte queued, or
\* one of them refused
WriteAcks == {<<1, 1, 1>>, <<0, 1, 1>>, <<1, 0, 1>>, <<1, 1, 0>>}

\* the answers of the transport to one register write
WriteAnswers == [w : WriteAcks, et : EndResults]

\* the registers of the device: every register a read or write can select
MemRegs == RegAddrs \cup {U8(s + i) : s \in StartAddrs, i \in 0..MaxBulk}

\* what the caller's result cells hold before a call: 0xABCD
CallerValues == {43981}

-----------------------------------------------------------------------------
(* The transport *)

\* one call on the transport: its name, its two arguments, its result
Call(fn, a, b, res) == [fn |-> fn, a |-> a, b |-> b, res |-> res]

\* the bytes of a transaction the transport queued: those whose write returned 1
RECURSIVE Queued(_, _)
Queued(bytes, w) ==
    IF bytes = <<>> THEN <<>>
    ELSE (IF Head(w) = 1 THEN <<Head(bytes)>> ELSE <<>>)
             \o Queued(Tail(bytes), Tail(w))

\* the register pointer of the device after a transaction of the queued bytes
\* buf that ended with result et
DevicePtr(p, buf, et) ==
    IF et = 0 /\ Len(buf) >= 1 /\ buf[1] \in MemRegs THEN buf[1] ELSE p

\* the registers of the device after that transaction: a complete word write
\* is stored least-significant byte first
DeviceMem(m, buf, et) ==
    IF et = 0 /\ Len(buf) = 3 /\ buf[1] \in MemRegs
    THEN [m EXCEPT ![buf[1]] = <<buf[2], buf[3]>>]
    ELSE m

-----------------------------------------------------------------------------
(* The driver's methods as functions of the driver state, the arguments,    *)
(* the transport's answers and the device state                             *)

\* checkCommunication: an address-only transaction; et is the result of
\* endTransmission()
\* the probe always made at the default address
checkCommunicationDefault(addr, et) ==
    [ok    |-> (et = 0),
     calls |-> <<Call("beginTransmission", BQ25723_I2C_ADDR_DEFAULT, 0, 0),
                 Call("endTransmission", 1, 0, et)>>]

checkCommunication(addr, et) ==
    [ok    |-> (et = 0),
     calls |-> <<Call("beginTransmission", addr, 0, 0),
                 Call("endTransmission", 1, 0, et)>>]

\* the transport configuration begin makes before the probe
configure(sdaPin, sclPin) ==
    (IF sdaPin >= 0 /\ sclPin >= 0
     THEN <<Call("begin", sdaPin, sclPin, 0)>>
     ELSE <<Call("begin", -1, -1, 0)>>)
        \o <<Call("setClock", I2C_SPEED, 0, 0)>>

\* begin(sdaPin, sclPin): configure the transport, probe, set the flag to the
\* probe's result and return it; init is _initialized before the call
beginNoReset(init, addr, sdaPin, sclPin, et) ==
    LET probe == checkCommunication(addr, et)
    IN  [ok          |-> probe.ok,
         initialized |-> (init \/ probe.ok),
         calls       |-> configure(sdaPin, sclPin) \o probe.calls]

beginProbeFirst(init, addr, sdaPin, sclPin, et) ==
    LET probe == checkCommunication(addr, et)
    IN  [ok          |-> probe.ok,
         initialized |-> probe.ok,
         calls       |-> probe.calls \o configure(sdaPin, sclPin)]

beginF(init, addr, sdaPin, sclPin, et) ==
    LET probe == checkCommunication(addr, et)
    IN  IF ~probe.ok
        THEN [ok |-> FALSE, initialized |-> FALSE,
              calls |-> configure(sdaPin, sclPin) \o probe.calls]
        ELSE [ok |-> TRUE, initialized |-> TRUE,
              calls |-> configure(sdaPin, sclPin) \o probe.calls]

\* setAddress(newAddress): the new _address and _initialized
setAddressIfChanged(init, addr, newAddress) ==
    [address     |-> newAddress,
     initialized |-> IF newAddress = addr THEN init ELSE FALSE]

setAddressF(init, addr, newAddress) ==
    [address |-> newAddress, initialized |-> FALSE]

\* the guard of readRegister: the driver is not initialized or value is null
readRefusedNoInit(init, hasValue) == ~hasValue

readRefused(init, hasValue) == ~init \/ ~hasValue

\* the guard of writeRegister
writeRefused(init) == ~init

\* the guard of readMultipleRegisters
bulkRefused(init, hasBuffer, count) == ~init \/ ~hasBuffer \/ count = 0

\* *value = (msb << 8) | lsb, stored in a uint16_t
combineSwapped(lsb, msb) == U16(BitOr(Shl(lsb, 8), msb))

combineLowOnly(lsb, msb) == U16(lsb)

combine(lsb, msb) == U16(BitOr(Shl(msb, 8), lsb))

\* the three bytes writeRegister hands to the transport, in order
writeBytesMsbFirst(regAddr, value) ==
    <<regAddr, BitAnd(Shr(value, 8), 255), BitAnd(value, 255)>>

writeBytes(regAddr, value) ==
    <<regAddr, BitAnd(value, 255), BitAnd(Shr(value, 8), 255)>>

\* the address phase of readRegister: its calls
addressPhaseStop(addr, regAddr, ans) ==
    <<Call("beginTransmission", addr, 0, 0),
      Call("write", regAddr, 0, ans.w),
      Call("endTransmission", 1, 0, ans.et)>>

addressPhase(addr, regAddr, ans) ==
    <<Call("beginTransmission", addr, 0, 0),
      Call("write", regAddr, 0, ans.w),
      Call("endTransmission", 0, 0, ans.et)>>

\* readRegister(regAddr, value): old is what *value held before the call
readRegisterP(init, addr, hasValue, regAddr, old, ans, m, p) ==
    IF readRefused(init, hasValue)
    THEN [ok |-> FALSE, value |-> old, calls |-> <<>>, ptr |-> p]
    ELSE LET c1 == addressPhase(addr, regAddr, ans)
             p1 == DevicePtr(p, Queued(<<regAddr>>, <<ans.w>>), ans.et)
         IN  IF ans.et # 0
             THEN [ok |-> FALSE, value |-> old, calls |-> c1, ptr |-> p1]
             ELSE LET c2 == c1 \o <<Call("requestFrom", addr, 2, ans.n)>>
                  IN  IF ans.n # 2
                      THEN [ok |-> FALSE, value |-> old, calls |-> c2, ptr |-> p1]
                      ELSE LET lsb == U8(m[p1][1])
                               msb == U8(m[p1][2])
                           IN  [ok    |-> TRUE,
                                value |-> combine(lsb, msb),
                                calls |-> c2 \o <<Call("read", 0, 0, m[p1][1]),
                                                  Call("read", 0, 0, m[p1][2])>>,
                                ptr   |-> p1]

\* uint16_t readRegister(regAddr): the local value is read only after a
\* successful read
readRegisterVZero(init, addr, regAddr, ans, m, p) ==
    LET r == readRegisterP(init, addr, TRUE, regAddr, 0, ans, m, p)
    IN  [ret   |-> IF r.ok THEN r.value ELSE 0,
         calls |-> r.calls,
         ptr   |-> r.ptr]

readRegisterV(init, addr, regAddr, ans, m, p) ==
    LET r == readRegisterP(init, addr, TRUE, regAddr, 0, ans, m, p)
    IN  [ret   |-> IF r.ok THEN r.value ELSE ERROR_VALUE,
         calls |-> r.calls,
         ptr   |-> r.ptr]

\* writeRegister returning at once when the register byte is refused
writeRegisterLeavingOpen(init, addr, regAddr, value, ans, m, p) ==
    IF writeRefused(init)
    THEN [ok |-> FALSE, calls |-> <<>>, mem |-> m, ptr |-> p]
    ELSE LET bytes == writeBytes(regAddr, value)
             buf   == Queued(bytes, ans.w)
         IN  IF ans.w[1] = 0
             THEN [ok     |-> FALSE,
                   calls  |-> <<Call("beginTransmission", addr, 0, 0),
                                Call("write", bytes[1], 0, ans.w[1])>>,
                   mem    |-> m,
                   ptr    |-> p]
             ELSE [ok     |-> (ans.et = 0),
                   calls  |-> <<Call("beginTransmission", addr, 0, 0),
                                Call("write", bytes[1], 0, ans.w[1]),
                                Call("write", bytes[2], 0, ans.w[2]),
                                Call("write", bytes[3], 0, ans.w[3]),
                                Call("endTransmission", 1, 0, ans.et)>>,
                   mem    |-> DeviceMem(m, buf, ans.et),
                   ptr    |-> DevicePtr(p, buf, ans.et)]

\* writeRegister(regAddr, value)
writeRegisterF(init, addr, regAddr, value, ans, m, p) ==
    IF writeRefused(init)
    THEN [ok |-> FALSE, calls |-> <<>>, mem |-> m, ptr |-> p]
    ELSE LET bytes == writeBytes(regAddr, value)
             buf   == Queued(bytes, ans.w)
         IN  [ok     |-> (ans.et = 0),
              calls  |-> <<Call("beginTransmission", addr, 0, 0),
                           Call("write", bytes[1], 0, ans.w[1]),
                           Call("write", bytes[2], 0, ans.w[2]),
                           Call("write", bytes[3], 0, ans.w[3]),
                           Call("endTransmission", 1, 0, ans.et)>>,
              mem    |-> DeviceMem(m, buf, ans.et),
              ptr    |-> DevicePtr(p, buf, ans.et)]

\* the switch of getRegisterName
registerNameOf(regAddr) ==
    CASE regAddr = BQ25723_REG_CHARGE_OPTION_0 -> "CHARGE_OPTION_0"
      [] regAddr = BQ25723_REG_CHARGE_CURRENT -> "CHARGE_CURRENT"
      [] regAddr = BQ25723_REG_CHARGE_VOLTAGE -> "CHARGE_VOLTAGE"
      [] regAddr = BQ25723_REG_OTG_VOLTAGE -> "OTG_VOLTAGE"
      [] regAddr = BQ25723_REG_OTG_CURRENT -> "OTG_CURRENT"
      [] regAddr = BQ25723_REG_INPUT_VOLTAGE -> "INPUT_VOLTAGE"
      [] regAddr = BQ25723_REG_VSYS_MIN -> "VSYS_MIN"
      [] regAddr = BQ25723_REG_IIN_HOST -> "IIN_HOST"
      [] regAddr = BQ25723_REG_CHARGER_STATUS -> "CHARGER_STATUS"
      [] regAddr = BQ25723_REG_PROCHOT_STATUS -> "PROCHOT_STATUS"
      [] regAddr = BQ25723_REG_IIN_DPM -> "IIN_DPM"
      [] regAddr = BQ25723_REG_ADCVBUS_PSYS -> "ADCVBUS_PSYS"
      [] regAddr = BQ25723_REG_ADCIBAT -> "ADCIBAT"
      [] regAddr = BQ25723_REG_ADCIINCMPIN -> "ADCIINCMPIN"
      [] regAddr = BQ25723_REG_ADCVSYSVBAT -> "ADCVSYSVBAT"
      [] regAddr = BQ25723_REG_MANUFACTURER_ID -> "MANUFACTURER_ID"
      [] regAddr = BQ25723_REG_DEVICE_ID -> "DEVICE_ID"
      [] regAddr = BQ25723_REG_CHARGE_OPTION_1 -> "CHARGE_OPTION_1"
      [] regAddr = BQ25723_REG_CHARGE_OPTION_2 -> "CHARGE_OPTION_2"
      [] regAddr = BQ25723_REG_CHARGE_OPTION_3 -> "CHARGE_OPTION_3"
      [] regAddr = BQ25723_REG_PROCHOT_OPTION_0 -> "PROCHOT_OPTION_0"
      [] regAddr = BQ25723_REG_PROCHOT_OPTION_1 -> "PROCHOT_OPTION_1"
      [] regAddr = BQ25723_REG_ADC_OPTION -> "ADC_OPTION"
      [] regAddr = BQ25723_REG_CHARGE_OPTION_4 -> "CHARGE_OPTION_4"
      [] regAddr = BQ25723_REG_VMIN_ACT_PROT -> "VMIN_ACT_PROT"
      [] OTHER -> "UNKNOWN"

\* static const char* getRegisterName(regAddr)
getRegisterNameEvenOnly(regAddr) == registerNameOf(2 * (regAddr \div 2))

getRegisterNameF(regAddr) == registerNameOf(regAddr)

\* the loop of readMultipleRegisters from slot i on; acc carries successCount
\* (ret), the buffer, the calls made so far and the device's register pointer
RECURSIVE bulkLoopAbort(_, _, _, _, _, _, _)
bulkLoopAbort(addr, startAddr, count, i, answers, m, acc) ==
    IF ~(i < count) THEN acc
    ELSE LET r == readRegisterP(TRUE, addr, TRUE, U8(startAddr + i),
                                acc.buffer[i + 1], answers[i + 1], m, acc.ptr)
             a == [ret    |-> IF r.ok THEN U8(acc.ret + 1) ELSE acc.ret,
                   buffer |-> [acc.buffer EXCEPT
                                  ![i + 1] = IF r.ok THEN r.value ELSE ERROR_VALUE],
                   calls  |-> acc.calls \o r.calls,
                   ptr    |-> r.ptr]
         IN  IF r.ok
             THEN bulkLoopAbort(addr, startAddr, count, U8(i + 1), answers, m, a)
             ELSE a

RECURSIVE bulkLoopNoMark(_, _, _, _, _, _, _)
bulkLoopNoMark(addr, startAddr, count, i, answers, m, acc) ==
    IF ~(i < count) THEN acc
    ELSE LET r == readRegisterP(TRUE, addr, TRUE, U8(startAddr + i),
                                acc.buffer[i + 1], answers[i + 1], m, acc.ptr)
         IN  bulkLoopNoMark(addr, startAddr, count, U8(i + 1), answers, m,
                 [ret    |-> IF r.ok THEN U8(acc.ret + 1) ELSE acc.ret,
                  buffer |-> [acc.buffer EXCEPT ![i + 1] = r.value],
                  calls  |-> acc.calls \o r.calls,
                  ptr    |-> r.ptr])

\* the loop body for slot i, with the register address not wrapping past 0xFF
bulkStepSaturating(addr, startAddr, i, ans, m, acc) ==
    LET regAddr == IF startAddr + i > 255 THEN 255 ELSE startAddr + i
        r == readRegisterP(TRUE, addr, TRUE, regAddr,
                           acc.buffer[i + 1], ans, m, acc.ptr)
    IN  [ret    |-> IF r.ok THEN U8(acc.ret + 1) ELSE acc.ret,
         buffer |-> [acc.buffer EXCEPT
                        ![i + 1] = IF r.ok THEN r.value ELSE ERROR_VALUE],
         calls  |-> acc.calls \o r.calls,
         ptr    |-> r.ptr]

\* the loop body for slot i: readRegister(startAddr + i, &buffer[i]), then
\* successCount++ or buffer[i] = 0xFFFF; startAddr + i is cut to a uint8_t
bulkStep(addr, startAddr, i, ans, m, acc) ==
    LET r == readRegisterP(TRUE, addr, TRUE, U8(startAddr + i),
                           acc.buffer[i + 1], ans, m, acc.ptr)
    IN  [ret    |-> IF r.ok THEN U8(acc.ret + 1) ELSE acc.ret,
         buffer |-> [acc.buffer EXCEPT
                        ![i + 1] = IF r.ok THEN r.value ELSE ERROR_VALUE],
         calls  |-> acc.calls \o r.calls,
         ptr    |-> r.ptr]

\* the passes of the loop for i, i + 1, ..., count - 1, in this order, from
\* the state acc; a long run of passes is taken as the passes before its
\* middle, then the others (successCount is a uint8_t)
RECURSIVE bulkLoop(_, _, _, _, _, _, _)
bulkLoop(addr, startAddr, count, i, answers, m, acc) ==
    IF ~(i < count) THEN acc
    ELSE IF count - i <= 8
    THEN bulkLoop(addr, startAddr, count, U8(i + 1), answers, m,
                  bulkStep(addr, startAddr, i, answers[i + 1], m, acc))
    ELSE LET mid   == i + ((count - i) \div 2)
             first == bulkLoop(addr, startAddr, mid, i, answers, m, acc)
         IN  CASE first.ret \in 0..UINT8_MAX ->
                 bulkLoop(addr, startAddr, count, mid, answers, m, first)

\* readMultipleRegisters(startAddr, buffer, count): old is the buffer before
\* the call, answers the transport's answers to the reads in order
readMultipleRegistersF(init, addr, hasBuffer, startAddr, count, old, answers, m, p) ==
    LET acc0 == [ret |-> 0, buffer |-> old, calls |-> <<>>, ptr |-> p]
    IN  IF bulkRefused(init, hasBuffer, count) THEN acc0
        ELSE bulkLoop(addr, startAddr, count, 0, answers, m, acc0)

-----------------------------------------------------------------------------
(* State *)

\* what a method was called with and what it returned: was and addr0 are
\* _initialized and _address when it was called, reg and arg its arguments,
\* ok and ret its result, out the caller's result cells after the call
Result(op, reg, arg, ok, ret, out) ==
    [op |-> op, reg |-> reg, arg |-> arg, ok |-> ok, ret |-> ret, out |-> out,
     was |-> initialized, addr0 |-> address]

\* the registers of the device at power-up: the identity register holds the
\* device's ID, low byte first; every other register a word of its own
ResetImage ==
    [r \in MemRegs |-> IF r = BQ25723_REG_DEVICE_ID
                       THEN <<DEVICE_ID_VALUE, 0>>
                       ELSE <<r, U8(r + 1)>>]

\* the constructor: BQ25723(address, wire, i2cSpeed)
Init ==
    /\ address \in DevAddrs
    /\ initialized = FALSE
    /\ mem = ResetImage
    /\ ptr = 0
    /\ written = << >>
    /\ calls = << >>
    /\ last = [op |-> "BQ25723", reg |-> 0, arg |-> 0, ok |-> TRUE, ret |-> 0,
               out |-> << >>, was |-> FALSE, addr0 |-> address]

-----------------------------------------------------------------------------
(* Methods *)

begin(sdaPin, sclPin) ==
    \E et \in EndResults :
        LET r == beginF(initialized, address, sdaPin, sclPin, et)
        IN  /\ initialized' = r.initialized
            /\ calls' = r.calls
            /\ last' = Result("begin", sdaPin, sclPin, r.ok, 0, << >>)
            /\ UNCHANGED <<address, mem, ptr, written>>

isConnectedCaching ==
    \E et \in EndResults :
        LET probe == checkCommunication(address, et)
        IN  /\ calls' = probe.calls
            /\ initialized' = probe.ok
            /\ last' = Result("isConnected", 0, 0, probe.ok, 0, << >>)
            /\ UNCHANGED <<address, mem, ptr, written>>

isConnected ==
    \E et \in EndResults :
        LET probe == checkCommunication(address, et)
        IN  /\ calls' = probe.calls
            /\ last' = Result("isConnected", 0, 0, probe.ok, 0, << >>)
            /\ UNCHANGED <<address, initialized, mem, ptr, written>>

setAddress(newAddress) ==
    /\ address' = setAddressF(initialized, address, newAddress).address
    /\ initialized' = setAddressF(initialized, address, newAddress).initialized
    /\ calls' = << >>
    /\ last' = Result("setAddress", newAddress, 0, TRUE, 0, << >>)
    /\ UNCHANGED <<mem, ptr, written>>

getAddress ==
    /\ calls' = << >>
    /\ last' = Result("getAddress", 0, 0, TRUE, address, << >>)
    /\ UNCHANGED <<address, initialized, mem, ptr, written>>

\* getRegisterName(regAddr): the name is the caller's only result
getRegisterName(regAddr) ==
    /\ calls' = << >>
    /\ last' = Result("getRegisterName", regAddr, 0, TRUE, 0,
                      <<getRegisterNameF(regAddr)>>)
    /\ UNCHANGED <<address, initialized, mem, ptr, written>>

\* the transport is asked nothing when the guard refuses the call
AnswersTo(refused, answers) ==
    IF refused THEN {CHOOSE a \in answers : TRUE} ELSE answers

\* bool readRegister(regAddr, value)
readRegister(regAddr, hasValue) ==
    \E old \in CallerValues :
    \E ans \in AnswersTo(readRefused(initialized, hasValue), ReadAnswers) :
        LET r == readRegisterP(initialized, address, hasValue, regAddr, old,
                               ans, mem, ptr)
        IN  /\ calls' = r.calls
            /\ ptr' = r.ptr
            /\ last' = Result("readRegister", regAddr, IF hasValue THEN 1 ELSE 0,
                              r.ok, 0, IF hasValue THEN <<r.value>> ELSE << >>)
            /\ UNCHANGED <<address, initialized, mem, written>>

\* uint16_t readRegister(regAddr)
readRegisterValue(regAddr) ==
    \E ans \in AnswersTo(readRefused(initialized, TRUE), ReadAnswers) :
        LET r == readRegisterV(initialized, address, regAddr, ans, mem, ptr)
        IN  /\ calls' = r.calls
            /\ ptr' = r.ptr
            /\ last' = Result("readRegisterValue", regAddr, 0, TRUE, r.ret, << >>)
            /\ UNCHANGED <<address, initialized, mem, written>>

\* the words the caller knows the device to hold: word value of register
\* regAddr once a write of it was queued whole and acknowledged
Remember(w, regAddr, value) ==
    [x \in DOMAIN w \cup {regAddr} |-> IF x = regAddr THEN value ELSE w[x]]

\* the transport queued every byte and the device acknowledged the transaction
Taken(ans) == ans.et = 0 /\ \A k \in 1..3 : ans.w[k] = 1

writeRegisterInvalidating(regAddr, value) ==
    \E ans \in AnswersTo(writeRefused(initialized), WriteAnswers) :
        LET r == writeRegisterF(initialized, address, regAddr, value, ans, mem, ptr)
        IN  /\ calls' = r.calls
            /\ mem' = r.mem
            /\ ptr' = r.ptr
            /\ written' = IF r.calls # << >> /\ Taken(ans)
                          THEN Remember(written, regAddr, value)
                          ELSE written
            /\ last' = Result("writeRegister", regAddr, value, r.ok, 0, << >>)
            /\ initialized' = r.ok
            /\ UNCHANGED address

writeRegister(regAddr, value) ==
    \E ans \in AnswersTo(writeRefused(initialized), WriteAnswers) :
        LET r == writeRegisterF(initialized, address, regAddr, value, ans, mem, ptr)
        IN  /\ calls' = r.calls
            /\ mem' = r.mem
            /\ ptr' = r.ptr
            /\ written' = IF r.calls # << >> /\ Taken(ans)
                          THEN Remember(written, regAddr, value)
                          ELSE written
            /\ last' = Result("writeRegister", regAddr, value, r.ok, 0, << >>)
            /\ UNCHANGED <<address, initialized>>

\* readMultipleRegisters(startAddr, buffer, count) with the transport
\* answering the reads with answers, in order
readMultipleRegistersWith(startAddr, hasBuffer, count, answers) ==
    \E old \in [1..count -> CallerValues] :
        LET r == readMultipleRegistersF(initialized, address, hasBuffer, startAddr,
                                         count, old, answers, mem, ptr)
        IN  /\ calls' = r.calls
            /\ ptr' = r.ptr
            /\ last' = Result("readMultipleRegisters", startAddr, count,
                              hasBuffer, r.ret, IF hasBuffer THEN r.buffer ELSE << >>)
            /\ UNCHANGED <<address, initialized, mem, written>>

readMultipleRegisters(startAddr, hasBuffer, count) ==
    \E answers \in AnswersTo(bulkRefused(initialized, hasBuffer, count),
                             [1..count -> BulkAnswers]) :
        readMultipleRegistersWith(startAddr, hasBuffer, count, answers)

-----------------------------------------------------------------------------
(* Specifications *)

Next ==
    \/ \E pins \in PinPairs : begin(pins[1], pins[2])
    \/ isConnected
    \/ \E a \in DevAddrs : setAddress(a)
    \/ getAddress
    \/ \E r \in RegAddrs \cup {255} : getRegisterName(r)
    \/ \E r \in RegAddrs, hasValue \in BOOLEAN : readRegister(r, hasValue)
    \/ \E r \in RegAddrs : readRegisterValue(r)
    \/ \E r \in RegAddrs, v \in Values : writeRegister(r, v)
    \/ \E s \in StartAddrs, hasBuffer \in BOOLEAN, n \in 0..MaxCount :
           readMultipleRegisters(s, hasBuffer, n)

Spec == Init /\ [][Next]_vars

\* the bulk read with up to MaxBulk registers, against a device whose identity
\* register is as at power-up or was overwritten with 0xFFFF
NextBulk ==
    \/ \E pins \in PinPairs : begin(pins[1], pins[2])
    \/ \E a \in DevAddrs : setAddress(a)
    \/ writeRegister(BQ25723_REG_DEVICE_ID, ERROR_VALUE)
    \/ \E s \in StartAddrs, n \in 0..MaxBulk : readMultipleRegisters(s, TRUE, n)

SpecBulk == Init /\ [][NextBulk]_vars

\* the name lookup for every 8-bit register address, in every state of the
\* driver's address and initialized flag
NextNames ==
    \/ \E pins \in PinPairs : begin(pins[1], pins[2])
    \/ \E a \in DevAddrs : setAddress(a)
    \/ \E r \in 0..255 : getRegisterName(r)

SpecNames == Init /\ [][NextNames]_vars

\* the transport answers every read of a bulk read with a
Uniform(count, a) == [i \in 1..count |-> a]

\* a caller that starts as setup() does, with the driver constructed and
\* begin(SDA_PIN, SCL_PIN) called once, and then makes one bulk read, of any
\* count a uint8_t holds
NextSetup ==
    \/ /\ last.op = "BQ25723"
       /\ begin(SDA_PIN, SCL_PIN)
    \/ /\ last.op = "begin"
       /\ \E s \in StartAddrs, n \in 0..UINT8_MAX :
          \E a \in AnswersTo(~initialized, BulkAnswers) :
              readMultipleRegistersWith(s, TRUE, n, Uniform(n, a))

SpecSetup == Init /\ [][NextSetup]_vars

-----------------------------------------------------------------------------
(* Reading the record of the last call *)

\* a transport call without its result
Shape(c) == <<c.fn, c.a, c.b>>

\* the calls of the last method without their results
Shapes == [i \in 1..Len(calls) |-> Shape(calls[i])]

RegisterOps ==
    {"readRegister", "readRegisterValue", "writeRegister", "readMultipleRegisters"}

\* the last method reported failure in the way that method reports it
Failed ==
    CASE last.op = "readRegister"          -> ~last.ok
      [] last.op = "readRegisterValue"     -> last.ret = 65535
      [] last.op = "writeRegister"         -> ~last.ok
      [] last.op = "readMultipleRegisters" -> last.ret = 0
      [] OTHER                             -> ~last.ok

\* the last method was a single-register read on a Ready driver with a place
\* for the result
ReadyRead ==
    /\ last.op \in {"readRegister", "readRegisterValue"}
    /\ last.was
    /\ last.op = "readRegister" => last.arg = 1

\* the last method was a single-register read that received its two bytes
ReadDelivered ==
    /\ ReadyRead
    /\ Len(calls) = 6
    /\ calls[5].fn = "read" /\ calls[6].fn = "read"

\* the value the last single-register read produced
ReadValue == IF last.op = "readRegister" THEN last.out[1] ELSE last.ret

-----------------------------------------------------------------------------
(* Claims *)

\* C1: while the driver is Uninitialized, readRegister (both forms),
\* writeRegister and readMultipleRegisters return their failure result
\* (false, 0xFFFF, false, 0) and make no transport call at all.
C1_Gating ==
    (last.op \in RegisterOps /\ ~last.was) => (Failed /\ calls = << >>)

\* a value-returning read was refused on an Uninitialized driver
C1_Witness ==
    /\ last.op = "readRegisterValue" /\ ~last.was
    /\ last.ret = 65535 /\ calls = << >>

\* C2: begin returns the acknowledgment result of the probe it made, and
\* leaves the initialized flag equal to that result, whatever the flag was.
C2_BeginResult ==
    last.op = "begin" =>
        /\ Len(calls) >= 1
        /\ calls[Len(calls)].fn = "endTransmission"
        /\ last.ok = (calls[Len(calls)].res = 0)
        /\ initialized = last.ok

\* begin on a Ready driver whose probe is not acknowledged leaves it
\* Uninitialized
C2_Witness ==
    /\ last.op = "begin" /\ last.was
    /\ calls[Len(calls)].res # 0 /\ ~last.ok /\ ~initialized

\* C3: setAddress(newAddr) leaves the driver Uninitialized with address
\* newAddr, also when newAddr is the current address; getAddress returns the
\* address; an Uninitialized driver stays Uninitialized until a begin is
\* acknowledged, and every register operation on it fails without a
\* transport call.
C3_AddressInvalidation ==
    [][ /\ last'.op = "setAddress" => (~initialized' /\ address' = last'.reg)
        /\ last'.op = "getAddress" => last'.ret = address
        /\ (~initialized /\ ~(last'.op = "begin" /\ last'.ok)) => ~initialized'
        /\ (~initialized /\ last'.op \in RegisterOps) => (Failed' /\ calls' = << >>)
      ]_vars

\* setAddress with the current address on a Ready driver
C3_Witness ==
    /\ last.op = "setAddress" /\ last.was /\ last.reg = last.addr0
    /\ ~initialized /\ address = last.addr0

\* C4: a successful readRegister yields (second << 8) | first of the two bytes
\* the transport delivered, first and second in the order received.
C4_ReadByteOrder ==
    ReadDelivered =>
        /\ last.op = "readRegister" => last.ok
        /\ ReadValue = calls[6].res * 256 + calls[5].res
        /\ ReadValue \in 0..65535

\* the transport delivers 0x23 then 0x00 and the read yields 0x0023
C4_Witness ==
    /\ ReadDelivered /\ last.op = "readRegister"
    /\ calls[5].res = 35 /\ calls[6].res = 0 /\ last.out = <<35>>

\* C5: writeRegister(r, v) on a Ready driver makes exactly one transaction to
\* the current address carrying the bytes r, v mod 256, v div 256 in that
\* order, ended with a stop, and no other transport call.
C5_WriteSequence ==
    (last.op = "writeRegister" /\ last.was) =>
        Shapes = << <<"beginTransmission", address, 0>>,
                    <<"write", last.reg, 0>>,
                    <<"write", last.arg % 256, 0>>,
                    <<"write", last.arg \div 256, 0>>,
                    <<"endTransmission", 1, 0>> >>

\* value 0x1770 to register 0x02 gives the bytes 0x02, 0x70, 0x17
C5_Witness ==
    /\ last.op = "writeRegister" /\ last.was
    /\ last.reg = 2 /\ last.arg = 6000
    /\ Len(calls) = 5
    /\ <<calls[2].a, calls[3].a, calls[4].a>> = <<2, 112, 23>>

\* C6: once writeRegister(r, v) was queued whole and acknowledged, the device
\* holds v low byte first, and a readRegister(r) whose address byte the
\* transport queued receives the low byte before the high byte and yields v.
C6_RoundTrip ==
    \A r \in DOMAIN written :
        /\ mem[r] = <<written[r] % 256, written[r] \div 256>>
        /\ (ReadDelivered /\ last.reg = r /\ calls[2].res = 1) =>
               /\ <<calls[5].res, calls[6].res>>
                      = <<written[r] % 256, written[r] \div 256>>
               /\ ReadValue = written[r]

\* 0x1770 written to register 0x02 is read back
C6_Witness ==
    /\ ReadDelivered /\ last.op = "readRegisterValue" /\ last.reg = 2
    /\ 2 \in DOMAIN written /\ written[2] = 6000
    /\ calls[2].res = 1 /\ last.ret = 6000
    /\ <<calls[5].res, calls[6].res>> = <<112, 23>>

C8_WriteSuccess ==
    (last.op = "writeRegister" /\ last.was) =>
        (last.ok => (/\ \A i \in 2..4 : calls[i].res = 1
                     /\ calls[5].res = 0))

\* C9: uint16_t readRegister(r) returns 0xFFFF when the driver is
\* Uninitialized, when the address phase failed and when fewer than 2 bytes
\* came back, and otherwise the 16-bit value combined from the bytes read.
C9_Sentinel ==
    last.op = "readRegisterValue" =>
        LET failure == \/ ~last.was
                       \/ calls[3].res # 0
                       \/ calls[4].res # 2
        IN  /\ failure => last.ret = 65535
            /\ ~failure => /\ Len(calls) = 6
                           /\ last.ret = calls[6].res * 256 + calls[5].res

\* a successful read of a register that holds 0xFFFF
C9_Witness ==
    /\ last.op = "readRegisterValue" /\ last.was
    /\ Len(calls) = 6 /\ calls[5].res = 255 /\ calls[6].res = 255
    /\ last.ret = 65535

-----------------------------------------------------------------------------
(* The bulk read *)

\* the single-register reads a sequence of transport calls consists of: for
\* each its register, whether it received its two bytes, the value of the two
\* bytes, and whether its calls are an address phase to the device address
\* ended without a stop, then a request for 2 bytes, then two byte reads
RECURSIVE Reads(_)
Reads(cs) ==
    IF cs = << >> THEN << >>
    ELSE IF Len(cs) < 3
    THEN << [reg |-> -1, ok |-> FALSE, value |-> 0, shaped |-> FALSE] >>
    ELSE LET n  == IF cs[3].res # 0 THEN 3
                   ELSE IF Len(cs) < 4 \/ cs[4].res # 2 THEN 4
                   ELSE 6
             ok == n = 6 /\ Len(cs) >= 6
             sh == [i \in 1..Len(cs) |-> Shape(cs[i])]
         IN  IF Len(cs) < n
             THEN << [reg |-> -1, ok |-> FALSE, value |-> 0, shaped |-> FALSE] >>
             ELSE << [reg    |-> cs[2].a,
                      ok     |-> ok,
                      value  |-> IF ok THEN cs[6].res * 256 + cs[5].res ELSE 0,
                      shaped |->
                          /\ sh[1] = <<"beginTransmission", address, 0>>
                          /\ sh[2] = <<"write", cs[2].a, 0>>
                          /\ sh[3] = <<"endTransmission", 0, 0>>
                          /\ n >= 4 => sh[4] = <<"requestFrom", address, 2>>
                          /\ n = 6 => (sh[5] = <<"read", 0, 0>>
                                          /\ sh[6] = <<"read", 0, 0>>)] >>
                      \o Reads(SubSeq(cs, n + 1, Len(cs)))

\* the last method was readMultipleRegisters(startAddr, buffer, count) on a
\* Ready driver with a buffer and count >= 1
ReadyBulk ==
    /\ last.op = "readMultipleRegisters"
    /\ last.was /\ last.ok /\ last.arg >= 1

\* what the bulk read does whatever the registers hold
BulkFilled(rs) ==
    /\ Len(rs) = last.arg
    /\ Len(last.out) = last.arg
    /\ \A i \in 1..Len(rs) :
           /\ rs[i].shaped
           /\ rs[i].reg = (last.reg + i - 1) % 256
           /\ ~rs[i].ok => last.out[i] = 65535
           /\ rs[i].ok =>
                  /\ last.out[i] = rs[i].value
                  /\ last.out[i] = mem[rs[i].reg][2] * 256 + mem[rs[i].reg][1]
    /\ last.ret = Cardinality({i \in 1..Len(rs) : rs[i].ok})

\* C10 as stated: count independent reads in increasing order, a failure
\* stopping nothing; the number returned is the number of successful reads,
\* each successful slot holds the value read, and exactly the failed slots
\* hold 0xFFFF.
C10_PartialBulkRead_Original ==
    ReadyBulk =>
        LET rs == Reads(calls)
        IN  /\ BulkFilled(rs)
            /\ \A i \in 1..Len(rs) : (last.out[i] = 65535) <=> ~rs[i].ok

\* C10 as amended: every failed slot holds 0xFFFF and each successful slot the
\* value read for its register, which may itself be 0xFFFF.
C10_PartialBulkRead ==
    ReadyBulk => BulkFilled(Reads(calls))

\* of three reads the first fails, the second succeeds with 0xFFFF from the
\* register and the third succeeds
C10_Witness ==
    /\ ReadyBulk /\ last.arg = 3
    /\ LET rs == Reads(calls)
       IN  /\ Len(rs) = 3
           /\ ~rs[1].ok /\ rs[2].ok /\ rs[3].ok
           /\ last.out[1] = 65535 /\ last.out[2] = 65535 /\ last.out[3] # 65535
           /\ last.ret = 2

\* the last method was readMultipleRegisters(startAddr, buffer, count) with a
\* buffer
BulkCall == last.op = "readMultipleRegisters" /\ last.ok

\* slot i of the buffer holds the value read for it or 0xFFFF
SlotFilled(rs, i) ==
    \/ last.out[i] = 65535
    \/ i <= Len(rs) /\ rs[i].ok /\ last.out[i] = rs[i].value

\* C11 as stated: after readMultipleRegisters(startAddr, count), the driver
\* Ready or Uninitialized, each of the count slots holds the value read for
\* it or 0xFFFF, and the number returned is the number of successful reads.
C11_SlotFilling_Original ==
    BulkCall =>
        LET rs == Reads(calls)
        IN  /\ Len(last.out) = last.arg
            /\ \A i \in 1..last.arg : SlotFilled(rs, i)
            /\ last.ret = Cardinality({i \in 1..Len(rs) : rs[i].ok})

\* C11 as amended: that holds on a Ready driver; on an Uninitialized driver
\* the call returns 0 and every slot holds what it held before the call.
C11_SlotFilling ==
    BulkCall =>
        LET rs == Reads(calls)
        IN  /\ Len(last.out) = last.arg
            /\ last.ret = Cardinality({i \in 1..Len(rs) : rs[i].ok})
            /\ last.was =>
                   /\ Len(rs) = last.arg
                   /\ \A i \in 1..last.arg : SlotFilled(rs, i)
            /\ ~last.was =>
                   /\ last.ret = 0 /\ rs = << >>
                   /\ \A i \in 1..last.arg : last.out[i] \in CallerValues

\* a bulk read of three registers on an Uninitialized driver leaves the
\* three slots as they were
C11_Witness ==
    /\ BulkCall /\ ~last.was /\ last.arg = 3
    /\ last.ret = 0 /\ last.out = <<43981, 43981, 43981>>

\* C12: isConnected makes the probe (a transaction to the device address with
\* no byte written, ended with a stop) whatever the initialized flag is,
\* returns whether the probe was acknowledged, and leaves the address and the
\* initialized flag as they were.
C12_IsConnected ==
    last.op = "isConnected" =>
        /\ Shapes = << <<"beginTransmission", last.addr0, 0>>,
                       <<"endTransmission", 1, 0>> >>
        /\ last.ok = (calls[2].res = 0)
        /\ initialized = last.was
        /\ address = last.addr0

\* a Ready driver whose probe is not acknowledged stays Ready
C12_Witness ==
    /\ last.op = "isConnected" /\ last.was
    /\ Len(calls) = 2 /\ calls[2].res # 0 /\ ~last.ok
    /\ initialized

\* an Uninitialized driver whose probe is acknowledged stays Uninitialized
C12_WitnessUninitialized ==
    /\ last.op = "isConnected" /\ ~last.was
    /\ Len(calls) = 2 /\ calls[2].res = 0 /\ last.ok
    /\ ~initialized

\* the 25 register offsets of the catalog: 0x00-0x0E even, 0x20-0x2C even,
\* 0x2E, 0x2F, 0x30-0x3E even
Catalog ==
    {2 * k : k \in 0..7} \cup {32 + 2 * k : k \in 0..6} \cup {46, 47}
        \cup {48 + 2 * k : k \in 0..7}

\* C13: for every address a in 0x00..0xFF getRegisterName(a) returns a
\* non-empty name, not the unknown token, when a is one of the 25 catalog
\* offsets, and the unknown token otherwise; the call makes no transport call
\* and changes neither the address nor the initialized flag.
C13_NameLookup ==
    /\ Cardinality(Catalog) = 25
    /\ last.op = "getRegisterName" =>
           /\ last.reg \in Catalog =>
                  (last.out[1] # "" /\ last.out[1] # "UNKNOWN")
           /\ last.reg \notin Catalog => last.out[1] = "UNKNOWN"
           /\ Len(last.out) = 1
           /\ calls = << >>
           /\ initialized = last.was /\ address = last.addr0

\* the name of 0xFF asked of a Ready driver is the unknown token
C13_Witness ==
    /\ last.op = "getRegisterName" /\ last.reg = 255 /\ last.was
    /\ last.out = <<"UNKNOWN">>

\* the name of the identity register 0x2F asked of an Uninitialized driver
C13_WitnessCatalog ==
    /\ last.op = "getRegisterName" /\ last.reg = 47 /\ ~last.was
    /\ last.out = <<"DEVICE_ID">>

\* a transport call that reported failure: a write that queued nothing, an
\* endTransmission other than 0, a requestFrom short of the bytes asked for
CallFailed(c) ==
    \/ c.fn = "write" /\ c.res = 0
    \/ c.fn = "endTransmission" /\ c.res # 0
    \/ c.fn = "requestFrom" /\ c.res # c.b

\* how many of the last method's calls were calls of fn
Count(fn) == Cardinality({i \in 1..Len(calls) : calls[i].fn = fn})

SingleOps == {"readRegister", "readRegisterValue", "writeRegister"}

\* C14: a single-register readRegister or writeRegister begins at most one
\* transaction and makes at most one requestFrom, and the first transport
\* call that reports failure is its last call and makes it return failure.
C14_NoRetries ==
    last.op \in SingleOps =>
        /\ Count("beginTransmission") <= 1
        /\ Count("requestFrom") <= 1
        /\ \A i \in 1..Len(calls) :
               CallFailed(calls[i]) => (i = Len(calls) /\ Failed)

\* the part of C14 the code keeps: at most one transaction and one request,
\* and nothing follows an endTransmission or requestFrom that failed
C14_NoRetriesAfterEnd ==
    last.op \in SingleOps =>
        /\ Count("beginTransmission") <= 1
        /\ Count("requestFrom") <= 1
        /\ \A i \in 1..Len(calls) :
               (CallFailed(calls[i]) /\ calls[i].fn # "write")
                   => (i = Len(calls) /\ Failed)

\* the methods that set the initialized flag
LifecycleOps == {"begin", "setAddress"}

\* C15: the driver starts Uninitialized; begin leaves the flag equal to the
\* acknowledgment of its probe and setAddress leaves it false; every other
\* method leaves the flag and the address as they were, whatever the bus
\* answers.  So the flag is true exactly when the latest of the begin and
\* setAddress calls was an acknowledged begin.
C15_Lifecycle ==
    /\ ~initialized
    /\ [][ /\ last'.op = "begin" =>
                  /\ initialized' = (calls'[Len(calls')].res = 0)
                  /\ address' = address
           /\ last'.op = "setAddress" => ~initialized'
           /\ last'.op \notin LifecycleOps =>
                  (initialized' = initialized /\ address' = address)
         ]_vars

\* a Ready driver stays Ready after a write that the device did not
\* acknowledge
C15_Witness ==
    /\ last.op = "writeRegister" /\ last.was
    /\ calls[5].res # 0 /\ ~last.ok
    /\ initialized /\ address = last.addr0

\* C16: begin(sdaPin, sclPin) makes exactly four transport calls in this
\* order: begin (with the pins when both are given, without otherwise),
\* setClock with the driver's speed, then the probe: beginTransmission to the
\* device address and endTransmission with a stop, no byte written between
\* them.  It makes no write, requestFrom or read call.
C16_InitTrace ==
    last.op = "begin" =>
        /\ Shapes =
               << IF last.reg >= 0 /\ last.arg >= 0
                  THEN <<"begin", last.reg, last.arg>>
                  ELSE <<"begin", -1, -1>>,
                  <<"setClock", 100000, 0>>,
                  <<"beginTransmission", address, 0>>,
                  <<"endTransmission", 1, 0>> >>
        /\ Count("write") = 0 /\ Count("requestFrom") = 0 /\ Count("read") = 0

\* begin(21, 22) on the default address, probe acknowledged
C16_Witness ==
    /\ last.op = "begin" /\ last.reg = 21 /\ last.arg = 22
    /\ address = 107 /\ last.ok
    /\ Len(calls) = 4
    /\ Shape(calls[1]) = <<"begin", 21, 22>>
    /\ calls[4].fn = "endTransmission" /\ calls[4].res = 0

\* begin with one pin only configures the transport without pins
C16_WitnessOnePin ==
    /\ last.op = "begin" /\ last.reg = 21 /\ last.arg = -1
    /\ Shape(calls[1]) = <<"begin", -1, -1>>

\* the transport call writes a byte
IsWrite(c) == c.fn = "write"

\* C17: readMultipleRegisters(startAddr, count) on a Ready driver makes
\* exactly count reads, for every count in 0..255, and the read of slot i is
\* for register (startAddr + i) mod 256: after 0xFF comes 0x00.
C17_WrapAround ==
    (BulkCall /\ last.was) =>
        LET regs == SelectSeq(calls, IsWrite)
        IN  /\ Len(regs) = last.arg
            /\ Count("beginTransmission") = last.arg
            /\ Len(last.out) = last.arg
            /\ \A i \in 1..Len(regs) : regs[i].a = (last.reg + i - 1) % 256
            /\ \A i \in 1..(Len(regs) - 1) : regs[i].a = 255 => regs[i + 1].a = 0

\* 255 reads from 0xFF on: the second read is for 0x00, the last for 0xFD
C17_Witness ==
    /\ BulkCall /\ last.was /\ last.reg = 255 /\ last.arg = 255
    /\ LET regs == SelectSeq(calls, IsWrite)
       IN  /\ Len(regs) = 255
           /\ regs[1].a = 255 /\ regs[2].a = 0 /\ regs[255].a = 253

\* the transactions the first i calls of the last method began and have not
\* ended
Open(i) ==
    Cardinality({k \in 1..i : calls[k].fn = "beginTransmission"})
        - Cardinality({k \in 1..i : calls[k].fn = "endTransmission"})

TransportOps ==
    {"begin", "isConnected", "readRegister", "readRegisterValue",
     "writeRegister", "readMultipleRegisters"}

\* C18: in every method that uses the transport, a beginTransmission is made
\* only with no transaction open and is followed by exactly one
\* endTransmission before the next beginTransmission or requestFrom and
\* before the method returns, whether it succeeds or fails; write is called
\* only inside a transaction.
C18_Bracketing ==
    last.op \in TransportOps =>
        /\ Open(Len(calls)) = 0
        /\ \A i \in 1..Len(calls) :
               /\ calls[i].fn = "beginTransmission" => Open(i - 1) = 0
               /\ calls[i].fn = "endTransmission" => Open(i - 1) = 1
               /\ calls[i].fn = "write" => Open(i - 1) = 1
               /\ calls[i].fn = "requestFrom" => Open(i - 1) = 0

\* a register write that failed: its transaction with three writes was ended
C18_Witness ==
    /\ last.op = "writeRegister" /\ last.was /\ ~last.ok
    /\ Count("beginTransmission") = 1 /\ Count("write") = 3
    /\ calls[Len(calls)].fn = "endTransmission"
    /\ \E i \in 1..Len(calls) : calls[i].fn = "write" /\ calls[i].res = 0

\* a register read that failed in its address phase: the transaction was ended
C18_WitnessRead ==
    /\ last.op = "readRegister" /\ last.was /\ ~last.ok
    /\ Len(calls) = 3
    /\ calls[3].fn = "endTransmission" /\ calls[3].res # 0

\* the transport calls that carry a bus address
Addressed == {"beginTransmission", "requestFrom"}

ProbeOps == {"begin", "isConnected"}

\* C19: every beginTransmission and requestFrom of a method carries the
\* address getAddress returns; only setAddress changes that address, to its
\* argument, so the probes and register transactions after setAddress(a) go
\* to a; a begin that makes the driver Ready had its probe to the driver's
\* address acknowledged, and a driver that stays Ready keeps that address.
C19_AddressTargeting ==
    [][ /\ last'.op = "setAddress" => address' = last'.reg
        /\ last'.op # "setAddress" => address' = address
        /\ last'.op = "getAddress" => last'.ret = address'
        /\ \A i \in 1..Len(calls') :
               calls'[i].fn \in Addressed => calls'[i].a = address'
        /\ last'.op \in ProbeOps =>
               \E i \in 1..Len(calls') :
                   Shape(calls'[i]) = <<"beginTransmission", address', 0>>
        /\ (last'.op = "begin" /\ initialized') =>
               \E i \in 1..(Len(calls') - 1) :
                   /\ Shape(calls'[i]) = <<"beginTransmission", address', 0>>
                   /\ calls'[i + 1].fn = "endTransmission"
                   /\ calls'[i + 1].res = 0
        /\ (last'.op # "begin" /\ initialized') =>
               (initialized /\ address' = address)
      ]_vars

\* a successful read at the alternate address: the transaction and the
\* request both went there
C19_Witness ==
    /\ last.op = "readRegister" /\ last.was /\ last.ok
    /\ address = BQ25723_I2C_ADDR_ALT
    /\ Len(calls) = 6
    /\ Shape(calls[1]) = <<"beginTransmission", BQ25723_I2C_ADDR_ALT, 0>>
    /\ Shape(calls[4]) = <<"requestFrom", BQ25723_I2C_ADDR_ALT, 2>>

\* setAddress moved a Ready driver to the other address
C19_WitnessSetAddress ==
    /\ last.op = "setAddress" /\ last.was
    /\ last.addr0 # address /\ address = last.reg /\ ~initialized

====
